---- MODULE Spec2Model ----
(***************************************************************************)
(* Model of the crash-capture bridge of                                    *)
(* toolkit/crashreporter/rust_minidump_writer_linux/src/lib.rs:            *)
(* write_minidump_linux and write_minidump_linux_with_context, the file    *)
(* system they open the dump destination on, and the dump-generation       *)
(* engine (minidump_writer) they delegate to.                              *)
(***************************************************************************)
EXTENDS Integers, Sequences, FiniteSets, TLC

\* ------------------------------------------------------------------ bounds
MaxCalls == 2      \* successive captures one caller thread makes
MaxDumpLen == 2    \* longest dump (in bytes) the engine writes

\* ------------------------------------------------------------ environment
Threads == {1, 2}
Hosts == {"h1", "h2"}
Archs == {"x86_64", "arm"}
LiveProcs == {1, 2}            \* process ids that exist
Pids == {1, 2, 3}              \* 3 is a non-existent process
Tids == {1, 2}

Max(a, b) == IF a > b THEN a ELSE b

\* byte strings behind a *const c_char (without the terminating NUL)
PathA == <<97>>                \* "a"
PathE == <<195, 169>>          \* "é", a two-byte UTF-8 sequence
PathNoDir == <<110, 47, 97>>   \* "n/a", parent directory n does not exist
PathTrunc == <<97, 195>>       \* incomplete UTF-8 sequence
PathBad == <<255>>             \* invalid UTF-8 byte

Ptr(bytes) == [bytes |-> bytes, null |-> FALSE]
NullPath == [bytes |-> <<>>, null |-> TRUE]

\* paths whose parent directory exists and is writable
Openable == {PathA, PathE}
FsPaths == {PathA, PathE, PathNoDir}

NoFile == [exists |-> FALSE, data |-> <<>>]
EmptyFs == [p \in FsPaths |-> NoFile]

\* ------------------------------------------------- CStr::to_str (UTF-8)
RECURSIVE Utf8Scan(_, _)
Utf8Scan(b, i) ==
    IF i > Len(b) THEN "ok"
    ELSE LET c == b[i]
             w == IF c < 128 THEN 1
                  ELSE IF c >= 194 /\ c <= 223 THEN 2
                  ELSE IF c >= 224 /\ c <= 239 THEN 3
                  ELSE IF c >= 240 /\ c <= 244 THEN 4
                  ELSE 0
             lo2 == IF c = 224 THEN 160 ELSE IF c = 240 THEN 144 ELSE 128
             hi2 == IF c = 237 THEN 159 ELSE IF c = 244 THEN 143 ELSE 191
         IN  IF w = 0 THEN "invalid"
             ELSE IF w = 1 THEN Utf8Scan(b, i + 1)
             ELSE IF i + 1 > Len(b) THEN "incomplete"
             ELSE IF b[i + 1] < lo2 \/ b[i + 1] > hi2 THEN "invalid"
             ELSE IF w = 2 THEN Utf8Scan(b, i + 2)
             ELSE IF i + 2 > Len(b) THEN "incomplete"
             ELSE IF b[i + 2] < 128 \/ b[i + 2] > 191 THEN "invalid"
             ELSE IF w = 3 THEN Utf8Scan(b, i + 3)
             ELSE IF i + 3 > Len(b) THEN "incomplete"
             ELSE IF b[i + 3] < 128 \/ b[i + 3] > 191 THEN "invalid"
             ELSE Utf8Scan(b, i + 4)

Utf8Valid(b) == Utf8Scan(b, 1) = "ok"

\* variant: lossy decoding, every byte string yields a string
to_str_lossy(b) ==
    [ok |-> TRUE,
     s |-> IF Utf8Valid(b) THEN b ELSE <<239, 191, 189>>,
     err |-> ""]

\* c_path.to_str(): the same bytes when they are valid UTF-8, else Utf8Error
to_str(b) ==
    IF Utf8Valid(b)
    THEN [ok |-> TRUE, s |-> b, err |-> ""]
    ELSE [ok |-> FALSE, s |-> <<>>,
          err |-> IF Utf8Scan(b, 1) = "incomplete"
                  THEN "incomplete utf-8 byte sequence"
                  ELSE "invalid utf-8 sequence"]

\* {:?} of a str: the quoted characters, one token per character
RECURSIVE Chars(_, _)
Chars(s, i) ==
    IF i > Len(s) THEN <<>>
    ELSE IF s[i] < 128 THEN <<s[i]>> \o Chars(s, i + 1)
    ELSE IF i + 1 <= Len(s)
         THEN <<(s[i] - 192) * 64 + (s[i + 1] - 128)>> \o Chars(s, i + 2)
         ELSE <<65533>>

CharTok(cp) ==
    CASE cp = 97 -> "a" [] cp = 110 -> "n" [] cp = 47 -> "/"
      [] cp = 233 -> "é" [] OTHER -> "\\u{fffd}"

DebugStr(s) ==
    <<"\"">> \o [i \in 1..Len(Chars(s, 1)) |-> CharTok(Chars(s, 1)[i])] \o <<"\"">>

\* ------------------------------------------------------------ file system
\* OpenOptions::new().create(true).write(true).open(path) on one file:
\* O_WRONLY|O_CREAT, an existing file keeps its content.
OpenOptions_open(f) ==
    IF f.exists THEN f ELSE [exists |-> TRUE, data |-> <<>>]

\* io::Error of a failed open (missing parent directory)
OpenError(p) == IF p \in Openable THEN "" ELSE "No such file or directory (os error 2)"

\* write_all of data through a handle at offset pos: bytes beyond the written
\* range are kept.
WriteAt(old, off, data) ==
    [i \in 1..Max(Len(old), off + Len(data)) |->
        IF i > off /\ i <= off + Len(data) THEN data[i - off]
        ELSE IF i <= Len(old) THEN old[i] ELSE 0]

NoHandle == [open |-> FALSE, path |-> <<>>, pos |-> 0]

\* variant: the handle outlives the function (mem::forget)
drop_leak(h) == h

\* dump_file goes out of scope at the return
drop(h) == NoHandle

\* --------------------------------------------------------- error messages
wml_path_err(e) == <<"Wrapper error. Path not convertable: ", e>>

wml_open_err_silent(p, e) == <<>>

wml_open_err(p, e) ==
    <<"Wrapper error when opening minidump destination at ">> \o DebugStr(p) \o <<": ", e>>

wml_engine_err(e) == <<e>>

wmlc_path_err_other(e) == <<"Wrapper error. Context path not convertable: ", e>>

wmlc_path_err(e) == <<"Wrapper error. Path not convertable: ", e>>

wmlc_open_err(p, e) ==
    <<"Wrapper error when opening minidump destination at ">> \o DebugStr(p) \o <<": ", e>>

wmlc_engine_err(e) == <<e>>

\* ------------------------------------------------- crash context layout
\* sizes of the fields in machine words (pid_t is one word)
FieldSize == [context |-> 2, float_state |-> 1, siginfo |-> 2, pid |-> 1, tid |-> 1]

\* variant: the declaration with pid and tid exchanged
InternalCrashContext_swapped(arch) ==
    IF arch = "arm" THEN <<"context", "siginfo", "tid", "pid">>
    ELSE <<"context", "float_state", "siginfo", "tid", "pid">>

\* #[repr(C)] struct InternalCrashContext: the fields in declaration order
InternalCrashContext(arch) ==
    IF arch = "arm" THEN <<"context", "siginfo", "pid", "tid">>
    ELSE <<"context", "float_state", "siginfo", "pid", "tid">>

\* the engine's crash_context::CrashContext, field for field the same layout
CrashContext(arch) ==
    IF arch = "arm" THEN <<"context", "siginfo", "pid", "tid">>
    ELSE <<"context", "float_state", "siginfo", "pid", "tid">>

FieldWords(v, f) ==
    CASE f = "context" -> v.context
      [] f = "float_state" -> v.float_state
      [] f = "siginfo" -> v.siginfo
      [] f = "pid" -> <<v.pid>>
      [] f = "tid" -> <<v.tid>>

RECURSIVE Encode(_, _, _)
Encode(v, fields, i) ==
    IF i > Len(fields) THEN <<>>
    ELSE FieldWords(v, fields[i]) \o Encode(v, fields, i + 1)

RECURSIVE Offset(_, _)
Offset(fields, i) ==
    IF i = 1 THEN 0 ELSE Offset(fields, i - 1) + FieldSize[fields[i - 1]]

FieldAt(words, fields, f) ==
    IF \E i \in 1..Len(fields) : fields[i] = f
    THEN LET i == CHOOSE k \in 1..Len(fields) : fields[k] = f
         IN  SubSeq(words, Offset(fields, i) + 1, Offset(fields, i) + FieldSize[f])
    ELSE <<>>

Decode(words, fields) ==
    [context |-> FieldAt(words, fields, "context"),
     float_state |-> FieldAt(words, fields, "float_state"),
     siginfo |-> FieldAt(words, fields, "siginfo"),
     pid |-> FieldAt(words, fields, "pid")[1],
     tid |-> FieldAt(words, fields, "tid")[1]]

\* mem::transmute_copy(&(*(context as *const CrashContext))): the bytes of the
\* InternalCrashContext read as a minidump_writer CrashContext { inner }
transmute_copy(v, arch) ==
    [inner |-> Decode(Encode(v, InternalCrashContext(arch), 1), CrashContext(arch))]

\* variant: the blamed thread taken from the pid field
wmlc_target_tid_pid(cc) == cc.inner.pid

\* MinidumpWriter::new(child, cc.inner.tid)
wmlc_target_tid(cc) == cc.inner.tid

\* InternalCrashContext values a signal handler can have filled in
Regs == {<<21, 22>>}
FloatRegs(arch) == IF arch = "arm" THEN {<<>>} ELSE {<<31>>}
SigInfos == {<<11, 40>>, <<6, 50>>}       \* SIGSEGV, SIGABRT with an address
Contexts(arch) ==
    {[context |-> r, float_state |-> f, siginfo |-> s, pid |-> 1,
      tid |-> IF s[1] = 11 THEN 2 ELSE 3] :
        r \in Regs, f \in FloatRegs(arch), s \in SigInfos}

ZeroContext == [context |-> <<0, 0>>, float_state |-> <<0>>, siginfo |-> <<0, 0>>,
                pid |-> 0, tid |-> 0]
NullContext == [null |-> TRUE, val |-> ZeroContext]
CtxPtr(v) == [null |-> FALSE, val |-> v]
NoCrashContext == [inner |-> ZeroContext]

\* ---------------------------------------------------------------- engine
\* outcomes of MinidumpWriter::dump for a target process: Ok after writing a
\* non-empty dump, or an error, after which part of a dump may be written.
\* The bytes of a dump name the process they were read from.
DumpOf(pid, n) == [i \in 1..n |-> pid]

EngineOutcomes(pid) ==
    IF pid \in LiveProcs
    THEN {[data |-> DumpOf(pid, n), ok |-> TRUE, err |-> ""] : n \in 1..MaxDumpLen}
         \cup {[data |-> DumpOf(pid, n), ok |-> FALSE, err |-> "Failed to write to file"] :
                  n \in 0..(MaxDumpLen - 1)}
    ELSE {[data |-> <<>>, ok |-> FALSE, err |-> "Failed to attach to process"]}

NoOutcome == [data |-> <<>>, ok |-> FALSE, err |-> ""]
NoEngineCall == [context |-> NoCrashContext, pid |-> 0, tid |-> 0, called |-> FALSE,
                 has_context |-> FALSE, outcome |-> NoOutcome, writes |-> 0]

\* ------------------------------------------------------------------ state
VARIABLES
    fs,         \* per host: the dump destinations, path -> file
    aborted,    \* per host: the process was aborted by a failed assert!
    host,       \* per caller thread: the host (process) it runs in
    arch,       \* target architecture the bridge is compiled for
    budget,     \* per caller thread: captures it still makes
    args,       \* per caller thread: arguments of the current invocation
    inv,        \* per caller thread: pc and locals of the current invocation
    error_msg,  \* per caller thread: the caller-owned nsCString
    engine,     \* per caller thread: what the engine was handed and did
    obs         \* per caller thread: history of the current invocation

vars == <<fs, aborted, host, arch, budget, args, inv, error_msg, engine, obs>>

NoArgs == [context |-> NullContext, entry |-> "none", dump_path |-> NullPath,
           child |-> 0, child_blamed_thread |-> 0]
IdleInv == [path |-> <<>>, cc |-> NoCrashContext, pc |-> "idle",
            dump_file |-> NoHandle, ret |-> "none"]
NoObs == [steps |-> <<>>, assigns |-> 0, msg_in |-> <<>>, fs_in |-> EmptyFs,
          fs_open |-> EmptyFs, fs_out |-> EmptyFs, live |-> 0, opens |-> 0, ncall |-> 0]

InitCommon ==
    /\ fs = [h \in Hosts |-> EmptyFs]
    /\ aborted = [h \in Hosts |-> FALSE]
    /\ args = [t \in Threads |-> NoArgs]
    /\ inv = [t \in Threads |-> IdleInv]
    /\ error_msg = [t \in Threads |-> <<>>]
    /\ engine = [t \in Threads |-> NoEngineCall]
    /\ obs = [t \in Threads |-> NoObs]

\* one caller thread making successive captures
Init ==
    /\ InitCommon
    /\ arch \in Archs
    /\ host = [t \in Threads |-> "h1"]
    /\ budget = [t \in Threads |-> IF t = 1 THEN MaxCalls ELSE 0]

\* two caller threads of one process, one capture each
InitConc ==
    /\ InitCommon
    /\ arch = "x86_64"
    /\ host = [t \in Threads |-> "h1"]
    /\ budget = [t \in Threads |-> 1]

\* two processes on separate hosts with equal file systems, one capture each
InitPair ==
    /\ InitCommon
    /\ arch \in Archs
    /\ host = [t \in Threads |-> IF t = 1 THEN "h1" ELSE "h2"]
    /\ budget = [t \in Threads |-> 1]

Running(t) == ~aborted[host[t]]

Step(name, ok) == [ok |-> ok, step |-> name]

\* ---------------------------------------------------------------- callers
Enter(t, a, m) ==
    /\ Running(t)
    /\ inv[t].pc \in {"idle", "returned"}
    /\ budget[t] > 0
    /\ budget' = [budget EXCEPT ![t] = @ - 1]
    /\ args' = [args EXCEPT ![t] = a]
    /\ inv' = [inv EXCEPT ![t] = [IdleInv EXCEPT !.pc = "assert"]]
    /\ error_msg' = [error_msg EXCEPT ![t] = m]
    /\ engine' = [engine EXCEPT ![t] = NoEngineCall]
    /\ obs' = [obs EXCEPT ![t] = [steps |-> <<>>, assigns |-> 0, msg_in |-> m,
                                  fs_in |-> fs[host[t]], fs_open |-> fs[host[t]],
                                  fs_out |-> EmptyFs,
                                  live |-> @.live,
                                  opens |-> 0, ncall |-> @.ncall + 1]]
    /\ UNCHANGED <<fs, aborted, host, arch>>

Call_wml(t, p, c, b, m) ==
    Enter(t, [context |-> NullContext, entry |-> "wml", dump_path |-> p,
              child |-> c, child_blamed_thread |-> b], m)

Call_wmlc(t, p, c, x, m) ==
    Enter(t, [context |-> x, entry |-> "wmlc", dump_path |-> p,
              child |-> c, child_blamed_thread |-> 0], m)

\* ------------------------------------------------------------- assertions
\* variant: an assertion that is compiled out (debug_assert!)
rust_assert_off(cond) == "pass"

\* assert!(cond): a failed assertion panics, and the panic aborts the process
rust_assert(cond) == IF cond THEN "pass" ELSE "panic"

Panic(t) ==
    /\ aborted' = [aborted EXCEPT ![host[t]] = TRUE]
    /\ inv' = [inv EXCEPT ![t].pc = "aborted"]
    /\ UNCHANGED <<fs, host, arch, budget, args, error_msg, engine, obs>>

\* ------------------------------------------------- write_minidump_linux
wml_Assert(t) ==
    /\ Running(t) /\ args[t].entry = "wml" /\ inv[t].pc = "assert"
    /\ IF rust_assert(~args[t].dump_path.null) = "panic"
       THEN Panic(t)
       ELSE /\ inv' = [inv EXCEPT ![t].pc = "to_str"]
            /\ UNCHANGED <<fs, aborted, host, arch, budget, args, error_msg, engine, obs>>

\* variant: the diagnostic kept in one buffer shared by all callers (a static)
wml_ToStr_static(t) ==
    /\ Running(t) /\ args[t].entry = "wml" /\ inv[t].pc = "to_str"
    /\ LET r == to_str(args[t].dump_path.bytes)
       IN  IF r.ok
           THEN /\ inv' = [inv EXCEPT ![t].pc = "open", ![t].path = r.s]
                /\ obs' = [obs EXCEPT ![t].steps = Append(@, Step("to_str", TRUE))]
                /\ UNCHANGED error_msg
           ELSE /\ error_msg' = [u \in Threads |-> wml_path_err(r.err)]
                /\ inv' = [inv EXCEPT ![t].pc = "returned", ![t].ret = "false"]
                /\ obs' = [obs EXCEPT ![t].steps = Append(@, Step("to_str", FALSE)),
                                      ![t].assigns = @ + 1]
    /\ UNCHANGED <<fs, aborted, host, arch, budget, args, engine>>

wml_ToStr(t) ==
    /\ Running(t) /\ args[t].entry = "wml" /\ inv[t].pc = "to_str"
    /\ LET r == to_str(args[t].dump_path.bytes)
       IN  IF r.ok
           THEN /\ inv' = [inv EXCEPT ![t].pc = "open", ![t].path = r.s]
                /\ obs' = [obs EXCEPT ![t].steps = Append(@, Step("to_str", TRUE))]
                /\ UNCHANGED error_msg
           ELSE /\ error_msg' = [error_msg EXCEPT ![t] = wml_path_err(r.err)]
                /\ inv' = [inv EXCEPT ![t].pc = "returned", ![t].ret = "false"]
                /\ obs' = [obs EXCEPT ![t].steps = Append(@, Step("to_str", FALSE)),
                                      ![t].assigns = @ + 1]
    /\ UNCHANGED <<fs, aborted, host, arch, budget, args, engine>>

\* variant: a failed open that is tried a second time before giving up
wml_Open_retry(t) ==
    /\ Running(t) /\ args[t].entry = "wml" /\ inv[t].pc = "open"
    /\ LET p == inv[t].path
           e == OpenError(p)
       IN  IF e = ""
           THEN /\ fs' = [fs EXCEPT ![host[t]][p] = OpenOptions_open(@)]
                /\ inv' = [inv EXCEPT ![t].pc = "dump",
                                      ![t].dump_file = [open |-> TRUE, path |-> p, pos |-> 0]]
                /\ obs' = [obs EXCEPT ![t].steps = Append(@, Step("open", TRUE)),
                                      ![t].live = @ + 1, ![t].opens = @ + 1,
                                      ![t].fs_open = fs[host[t]]]
                /\ UNCHANGED error_msg
           ELSE /\ error_msg' = [error_msg EXCEPT ![t] = wml_open_err(p, e)]
                /\ inv' = [inv EXCEPT ![t].pc = IF obs[t].assigns = 0 THEN "open" ELSE "returned",
                                      ![t].ret = IF obs[t].assigns = 0 THEN "none" ELSE "false"]
                /\ obs' = [obs EXCEPT ![t].steps = Append(@, Step("open", FALSE)),
                                      ![t].assigns = @ + 1]
                /\ UNCHANGED fs
    /\ UNCHANGED <<aborted, host, arch, budget, args, engine>>

wml_Open(t) ==
    /\ Running(t) /\ args[t].entry = "wml" /\ inv[t].pc = "open"
    /\ LET p == inv[t].path
           e == OpenError(p)
       IN  IF e = ""
           THEN /\ fs' = [fs EXCEPT ![host[t]][p] = OpenOptions_open(@)]
                /\ inv' = [inv EXCEPT ![t].pc = "dump",
                                      ![t].dump_file = [open |-> TRUE, path |-> p, pos |-> 0]]
                /\ obs' = [obs EXCEPT ![t].steps = Append(@, Step("open", TRUE)),
                                      ![t].live = @ + 1, ![t].opens = @ + 1,
                                      ![t].fs_open = fs[host[t]]]
                /\ UNCHANGED error_msg
           ELSE /\ error_msg' = [error_msg EXCEPT ![t] = wml_open_err(p, e)]
                /\ inv' = [inv EXCEPT ![t].pc = "returned", ![t].ret = "false"]
                /\ obs' = [obs EXCEPT ![t].steps = Append(@, Step("open", FALSE)),
                                      ![t].assigns = @ + 1]
                /\ UNCHANGED fs
    /\ UNCHANGED <<aborted, host, arch, budget, args, engine>>

\* MinidumpWriter::dump(&mut dump_file): the engine's bytes go through the
\* handle at its current offset
MinidumpWriter_dump(f, h, o) ==
    [exists |-> TRUE, data |-> WriteAt(f.data, h.pos, o.data)]

Closed(h) == IF drop(h).open THEN 0 ELSE 1

wml_Dump(t, o) ==
    /\ Running(t) /\ args[t].entry = "wml" /\ inv[t].pc = "dump"
    /\ o \in EngineOutcomes(args[t].child)
    /\ LET h == inv[t].dump_file
       IN  /\ engine' = [engine EXCEPT ![t] =
                  [context |-> NoCrashContext, pid |-> args[t].child,
                   tid |-> args[t].child_blamed_thread, called |-> TRUE,
                   has_context |-> FALSE, outcome |-> o, writes |-> @.writes + 1]]
           /\ fs' = [fs EXCEPT ![host[t]][h.path] = MinidumpWriter_dump(@, h, o)]
           /\ inv' = [inv EXCEPT ![t].pc = "returned",
                                 ![t].ret = IF o.ok THEN "true" ELSE "false",
                                 ![t].dump_file = drop(h)]
           /\ error_msg' = IF o.ok THEN error_msg
                           ELSE [error_msg EXCEPT ![t] = wml_engine_err(o.err)]
           /\ obs' = [obs EXCEPT ![t].steps = Append(@, Step("dump", o.ok)),
                                 ![t].assigns = IF o.ok THEN @ ELSE @ + 1,
                                 ![t].live = @ - Closed(h),
                                 ![t].fs_out = fs'[host[t]]]
    /\ UNCHANGED <<aborted, host, arch, budget, args>>

\* ------------------------------------- write_minidump_linux_with_context
wmlc_Assert(t) ==
    /\ Running(t) /\ args[t].entry = "wmlc" /\ inv[t].pc = "assert"
    /\ IF rust_assert(~args[t].dump_path.null) = "panic"
          \/ rust_assert(~args[t].context.null) = "panic"
       THEN Panic(t)
       ELSE /\ inv' = [inv EXCEPT ![t].pc = "to_str",
                                  ![t].cc = transmute_copy(args[t].context.val, arch)]
            /\ UNCHANGED <<fs, aborted, host, arch, budget, args, error_msg, engine, obs>>

wmlc_ToStr(t) ==
    /\ Running(t) /\ args[t].entry = "wmlc" /\ inv[t].pc = "to_str"
    /\ LET r == to_str(args[t].dump_path.bytes)
       IN  IF r.ok
           THEN /\ inv' = [inv EXCEPT ![t].pc = "open", ![t].path = r.s]
                /\ obs' = [obs EXCEPT ![t].steps = Append(@, Step("to_str", TRUE))]
                /\ UNCHANGED error_msg
           ELSE /\ error_msg' = [error_msg EXCEPT ![t] = wmlc_path_err(r.err)]
                /\ inv' = [inv EXCEPT ![t].pc = "returned", ![t].ret = "false"]
                /\ obs' = [obs EXCEPT ![t].steps = Append(@, Step("to_str", FALSE)),
                                      ![t].assigns = @ + 1]
    /\ UNCHANGED <<fs, aborted, host, arch, budget, args, engine>>

wmlc_Open(t) ==
    /\ Running(t) /\ args[t].entry = "wmlc" /\ inv[t].pc = "open"
    /\ LET p == inv[t].path
           e == OpenError(p)
       IN  IF e = ""
           THEN /\ fs' = [fs EXCEPT ![host[t]][p] = OpenOptions_open(@)]
                /\ inv' = [inv EXCEPT ![t].pc = "dump",
                                      ![t].dump_file = [open |-> TRUE, path |-> p, pos |-> 0]]
                /\ obs' = [obs EXCEPT ![t].steps = Append(@, Step("open", TRUE)),
                                      ![t].live = @ + 1, ![t].opens = @ + 1,
                                      ![t].fs_open = fs[host[t]]]
                /\ UNCHANGED error_msg
           ELSE /\ error_msg' = [error_msg EXCEPT ![t] = wmlc_open_err(p, e)]
                /\ inv' = [inv EXCEPT ![t].pc = "returned", ![t].ret = "false"]
                /\ obs' = [obs EXCEPT ![t].steps = Append(@, Step("open", FALSE)),
                                      ![t].assigns = @ + 1]
                /\ UNCHANGED fs
    /\ UNCHANGED <<aborted, host, arch, budget, args, engine>>

wmlc_Dump(t, o) ==
    /\ Running(t) /\ args[t].entry = "wmlc" /\ inv[t].pc = "dump"
    /\ o \in EngineOutcomes(args[t].child)
    /\ LET h == inv[t].dump_file
           cc == inv[t].cc
       IN  /\ engine' = [engine EXCEPT ![t] =
                  [context |-> cc, pid |-> args[t].child,
                   tid |-> wmlc_target_tid(cc), called |-> TRUE,
                   has_context |-> TRUE, outcome |-> o, writes |-> @.writes + 1]]
           /\ fs' = [fs EXCEPT ![host[t]][h.path] = MinidumpWriter_dump(@, h, o)]
           /\ inv' = [inv EXCEPT ![t].pc = "returned",
                                 ![t].ret = IF o.ok THEN "true" ELSE "false",
                                 ![t].dump_file = drop(h)]
           /\ error_msg' = IF o.ok THEN error_msg
                           ELSE [error_msg EXCEPT ![t] = wmlc_engine_err(o.err)]
           /\ obs' = [obs EXCEPT ![t].steps = Append(@, Step("dump", o.ok)),
                                 ![t].assigns = IF o.ok THEN @ ELSE @ + 1,
                                 ![t].live = @ - Closed(h),
                                 ![t].fs_out = fs'[host[t]]]
    /\ UNCHANGED <<aborted, host, arch, budget, args>>

\* ------------------------------------------------------- specifications
Msgs == {<<>>, <<"stale">>}
AllPaths == {NullPath} \cup {Ptr(b) : b \in {PathA, PathE, PathNoDir, PathTrunc, PathBad}}
AllContexts == {NullContext} \cup {CtxPtr(v) : v \in Contexts(arch)}

FewPaths == {NullPath} \cup {Ptr(b) : b \in {PathA, PathE, PathBad}}
FewContexts == {NullContext} \cup
    {CtxPtr(v) : v \in {c \in Contexts(arch) : c.tid = 2 /\ c.siginfo[1] = 11}}

Steps(t) ==
    \/ wml_Assert(t)
    \/ wml_ToStr(t)
    \/ wml_Open(t)
    \/ \E o \in EngineOutcomes(args[t].child) : wml_Dump(t, o)
    \/ wmlc_Assert(t)
    \/ wmlc_ToStr(t)
    \/ wmlc_Open(t)
    \/ \E o \in EngineOutcomes(args[t].child) : wmlc_Dump(t, o)

Next ==
    \E t \in Threads :
        \/ \E p \in AllPaths, c \in Pids, b \in Tids, m \in Msgs : Call_wml(t, p, c, b, m)
        \/ \E p \in AllPaths, c \in Pids, x \in AllContexts, m \in Msgs : Call_wmlc(t, p, c, x, m)
        \/ Steps(t)

NextFew ==
    \E t \in Threads :
        \/ \E p \in FewPaths, c \in Pids, b \in {1}, m \in {<<>>} : Call_wml(t, p, c, b, m)
        \/ \E p \in FewPaths, c \in Pids, x \in FewContexts, m \in {<<>>} : Call_wmlc(t, p, c, x, m)
        \/ Steps(t)

Spec == Init /\ [][Next]_vars
SpecConc == InitConc /\ [][NextFew]_vars
SpecPair == InitPair /\ [][NextFew]_vars

\* ------------------------------------------------------------ properties
Done(t) == inv[t].pc = "returned"
Stepped(t, name) == \E i \in 1..Len(obs[t].steps) : obs[t].steps[i].step = name
NonEmptyMsg(m) == \E i \in 1..Len(m) : m[i] # ""
BadPtr(t) ==
    args[t].dump_path.null \/ (args[t].entry = "wmlc" /\ args[t].context.null)

\* C1: after a capture to a path an earlier capture wrote to, the file holds
\* exactly the bytes this capture wrote, none of the earlier content remains
C1_SecondCaptureReplaces ==
    \A t \in Threads :
        (Done(t) /\ engine[t].called /\ obs[t].fs_in[inv[t].path].exists)
            => fs[host[t]][inv[t].path].data = engine[t].outcome.data

\* C2: a call with non-null arguments returns true exactly when the path
\* decoded, the destination opened and the engine succeeded; every return of
\* false has assigned a non-empty error_msg; a non-existent target fails
C2_ReturnProtocol ==
    \A t \in Threads :
        Done(t) =>
            /\ inv[t].ret \in {"true", "false"}
            /\ (inv[t].ret = "true") <=>
                   /\ Utf8Valid(args[t].dump_path.bytes)
                   /\ args[t].dump_path.bytes \in Openable
                   /\ engine[t].called /\ engine[t].outcome.ok
            /\ (inv[t].ret = "false") =>
                   (obs[t].assigns >= 1 /\ NonEmptyMsg(error_msg[t]))
            /\ (inv[t].ret = "true") => error_msg[t] = obs[t].msg_in
            /\ (engine[t].called /\ args[t].child \notin LiveProcs) => inv[t].ret = "false"

C2_Witness ==
    \E t \in Threads :
        /\ Done(t) /\ inv[t].ret = "false" /\ engine[t].called
        /\ args[t].child \notin LiveProcs /\ obs[t].msg_in = <<>>
        /\ args[t].entry = "wmlc"

\* C3: a non-null path that is not valid UTF-8 makes the call return false
\* with no open, no engine call and the file system as it was at the call
C3_BadEncodingTouchesNothing ==
    \A t \in Threads :
        (Done(t) /\ ~args[t].dump_path.null /\ ~Utf8Valid(args[t].dump_path.bytes))
            => /\ inv[t].ret = "false"
               /\ ~Stepped(t, "open") /\ obs[t].opens = 0
               /\ ~engine[t].called
               /\ fs[host[t]] = obs[t].fs_in

C3_Witness ==
    \E t \in Threads :
        /\ Done(t) /\ args[t].entry = "wmlc"
        /\ args[t].dump_path.bytes = PathTrunc
        /\ obs[t].fs_in[PathA].exists

\* C4: a null dump_path, or a null context in the with-context entry point,
\* aborts before error_msg, the file system or the engine is touched, also
\* when the path is undecodable or unopenable; nothing runs after the abort
C4_NullIsFatal ==
    /\ [](\A t \in Threads :
            (BadPtr(t) /\ inv[t].pc \notin {"idle", "assert"})
                => /\ inv[t].pc = "aborted"
                   /\ aborted[host[t]]
                   /\ inv[t].ret = "none"
                   /\ error_msg[t] = obs[t].msg_in /\ obs[t].assigns = 0
                   /\ obs[t].steps = <<>> /\ obs[t].opens = 0
                   /\ ~engine[t].called
                   /\ fs[host[t]] = obs[t].fs_in)
    /\ [][\A t \in Threads : inv[t].pc = "aborted" =>
              (inv'[t] = inv[t] /\ fs'[host[t]] = fs[host[t]]
               /\ error_msg'[t] = error_msg[t] /\ engine'[t] = engine[t])]_vars

C4_Witness ==
    \E t \in Threads :
        /\ inv[t].pc = "aborted" /\ args[t].entry = "wmlc"
        /\ args[t].context.null /\ ~args[t].dump_path.null
        /\ args[t].dump_path.bytes = PathBad
        /\ obs[t].msg_in # <<>>

\* C5: the with-context entry point hands the engine the tid embedded in the
\* supplied context, together with the context that tid was read from
C5_TargetIsContextTid ==
    \A t \in Threads :
        (engine[t].called /\ args[t].entry = "wmlc")
            => /\ engine[t].tid = args[t].context.val.tid
               /\ engine[t].pid = args[t].child
               /\ engine[t].has_context
               /\ engine[t].context = inv[t].cc
               /\ engine[t].context.inner.tid = engine[t].tid

C5_Witness ==
    \E t \in Threads :
        /\ engine[t].called /\ args[t].entry = "wmlc"
        /\ args[t].context.val.tid = 3 /\ args[t].child = 2
        /\ args[t].context.val.pid = 1

\* C6: an invocation opens the destination at most once, the engine writes
\* to it at most once, and no handle is open once the invocation returned
C6_HandleClosedOnReturn ==
    \A t \in Threads :
        /\ obs[t].opens <= 1 /\ obs[t].live <= 1 /\ engine[t].writes <= 1
        /\ inv[t].pc \in {"idle", "returned"} =>
               (obs[t].live = 0 /\ ~inv[t].dump_file.open)
        /\ inv[t].dump_file.open => (inv[t].pc = "dump" /\ obs[t].live = 1)

C6_Witness ==
    \E t \in Threads :
        /\ Done(t) /\ obs[t].opens = 1 /\ inv[t].ret = "false"
        /\ engine[t].called /\ obs[t].ncall = 2

\* C7: the two entry points, given the same path, file system, error_msg and
\* engine outcome, take the same steps, return the same value, leave the same
\* error_msg and the same files
SameInputs(t, u) ==
    /\ args[t].entry = "wml" /\ args[u].entry = "wmlc"
    /\ ~args[u].context.null
    /\ args[t].dump_path = args[u].dump_path
    /\ obs[t].fs_in = obs[u].fs_in
    /\ obs[t].msg_in = obs[u].msg_in
    /\ (engine[t].called /\ engine[u].called) => engine[t].outcome = engine[u].outcome

Alone(t) ==
    LET a == args[t]
        r == to_str(a.dump_path.bytes)
        o == engine[t].outcome
        perr == IF a.entry = "wml" THEN wml_path_err(r.err) ELSE wmlc_path_err(r.err)
        oerr == IF a.entry = "wml" THEN wml_open_err(r.s, OpenError(r.s))
                ELSE wmlc_open_err(r.s, OpenError(r.s))
        eerr == IF a.entry = "wml" THEN wml_engine_err(o.err) ELSE wmlc_engine_err(o.err)
    IN  IF ~r.ok THEN [fs |-> obs[t].fs_open, ret |-> "false", msg |-> perr]
        ELSE IF OpenError(r.s) # "" THEN [fs |-> obs[t].fs_open, ret |-> "false", msg |-> oerr]
        ELSE [fs |-> [obs[t].fs_open EXCEPT ![r.s] =
                        MinidumpWriter_dump(OpenOptions_open(@),
                                            [open |-> TRUE, path |-> r.s, pos |-> 0], o)],
              ret |-> IF o.ok THEN "true" ELSE "false",
              msg |-> IF o.ok THEN obs[t].msg_in ELSE eerr]

Dest(t) == to_str(args[t].dump_path.bytes).s

AsAlone(t) ==
    /\ inv[t].ret = Alone(t).ret
    /\ error_msg[t] = Alone(t).msg
    /\ engine[t].called => obs[t].fs_out[Dest(t)] = Alone(t).fs[Dest(t)]

Concurrent(t, u) ==
    /\ t # u /\ host[t] = host[u]
    /\ args[t].entry # "none" /\ args[u].entry # "none"
    /\ args[t].child # args[u].child

\* C8 as stated: two concurrent captures of different targets each end with
\* the return value, error_msg and destination content of a run alone
C8_IndependentAnyPath ==
    \A t, u \in Threads : (Concurrent(t, u) /\ Done(t)) => AsAlone(t)

\* C8 as amended: two concurrent captures of different targets with different
\* destination paths each end, when they return, as a run alone
C8_IndependentDistinctPaths ==
    \A t, u \in Threads :
        (Concurrent(t, u) /\ Done(t) /\ args[t].dump_path # args[u].dump_path)
            => AsAlone(t)

C8_Witness ==
    \E t, u \in Threads :
        /\ Concurrent(t, u) /\ Done(t) /\ Done(u)
        /\ args[t].dump_path # args[u].dump_path
        /\ engine[t].called /\ engine[u].called
        /\ obs[t].fs_in = EmptyFs /\ obs[u].fs_in = EmptyFs
        /\ obs[t].fs_open # EmptyFs
        /\ engine[t].outcome.ok /\ ~engine[u].outcome.ok

StepOrder == <<"to_str", "open", "dump">>

FailedStepMsg(t) ==
    LET n == Len(obs[t].steps)
    IN  CASE obs[t].steps[n].step = "to_str" ->
                 error_msg[t][1] = "Wrapper error. Path not convertable: "
          [] obs[t].steps[n].step = "open" ->
                 error_msg[t][1] = "Wrapper error when opening minidump destination at "
          [] OTHER -> error_msg[t] = <<engine[t].outcome.err>>

C10_FirstFailureStops ==
    \A t \in Threads :
        LET st == obs[t].steps
            n == Len(st)
        IN  /\ n <= Len(StepOrder)
            /\ \A i \in 1..n : st[i].step = StepOrder[i]
            /\ \A i \in 1..n : i < n => st[i].ok
            /\ obs[t].assigns <= 1 /\ obs[t].opens <= 1 /\ engine[t].writes <= 1
            /\ engine[t].called <=> n = 3
            /\ (obs[t].opens = 1) <=> (n >= 2 /\ st[2].ok)
            /\ (obs[t].assigns = 1) <=> (n >= 1 /\ ~st[n].ok)
            /\ (obs[t].assigns = 1) => (Done(t) /\ FailedStepMsg(t))
            /\ (obs[t].assigns = 0) => error_msg[t] = obs[t].msg_in

C10_Witness ==
    \E t \in Threads :
        /\ Done(t) /\ Len(obs[t].steps) = 2 /\ ~obs[t].steps[2].ok
        /\ obs[t].assigns = 1 /\ obs[t].msg_in # <<>> /\ args[t].entry = "wml"
====
